---- MODULE Spec2Model ----
(***************************************************************************)
(* Daily Tracker API (src/main.py): the users and activities tables, the   *)
(* account handlers, the activity CRUD handlers and the analytics handlers *)
(* get_daily_summary and get_trends.                                       *)
(*                                                                         *)
(* Representation                                                          *)
(*   - a DATE value is its proleptic Gregorian ordinal (date.toordinal()); *)
(*     a '%Y-%m-%d' string is the tuple <<year, month, day>>;              *)
(*   - a number rounded to one decimal is an integer count of tenths       *)
(*     (88.9 is 889); a MySQL DECIMAL with scale 4 is a count of           *)
(*     ten-thousandths;                                                    *)
(*   - SQL NULL / Python None of an integer or date field is NULL;         *)
(*   - a raw category string is [name, pad]: the text name, surrounded by  *)
(*     whitespace iff pad;                                                 *)
(*   - notes and photo_url are stored and returned untouched and are left  *)
(*     out of the rows;                                                    *)
(*   - the category column is compared under the default collation of the  *)
(*     server, which ignores case (WHERE category = ..., GROUP BY           *)
(*     category); Python compares strings exactly (the keys of a dict);     *)
(*   - a raw e-mail address is [name, upper]: the lower-case text name,    *)
(*     written with capital letters iff upper;                             *)
(*   - a token is the record of what jwt.decode finds in it: whether the  *)
(*     signature is good, whether exp has passed, and the user_id and type *)
(*     of the payload;                                                     *)
(*   - db_up tells whether the MySQL server answers; strict_dates tells    *)
(*     whether it rejects the comparison of a DATE column with a string    *)
(*     that is no date (error 1525) or evaluates it to no row;             *)
(*   - photo_url_column tells which code of the repository made the       *)
(*     tables.  FALSE: init_db (src/main.py), on an empty database; its    *)
(*     activities table has no column photo_url, a foreign key on user_id  *)
(*     with ON DELETE CASCADE and created_at DEFAULT CURRENT_TIMESTAMP.    *)
(*     TRUE: create_tables (src/db.py), run before the service started     *)
(*     (the CREATE TABLE IF NOT EXISTS of init_db leaves its tables        *)
(*     alone); its activities table has the column photo_url, no foreign   *)
(*     key and a created_at without default.  Both users tables have the   *)
(*     UNIQUE index on email.                                              *)
(*                                                                         *)
(* Scheduling (uvicorn, one event loop per server process): verify_token   *)
(* is a plain function and runs in the thread pool before the handler; the *)
(* body of an async handler has no await and runs without interruption     *)
(* inside its process.  The database is a separate server with autocommit  *)
(* connections: every statement is its own transaction, the statements of  *)
(* handlers of different server processes interleave, and the server may   *)
(* stop between two statements of one handler.  Every handler of more than *)
(* one statement is therefore a sequence of steps, one per statement, in   *)
(* every specification; the specifications differ in the requests they     *)
(* send and in whether a second process or a failing server is part of     *)
(* them.  An AUTO_INCREMENT value taken by an INSERT that the server then  *)
(* refuses (UNIQUE index) is not given back.                               *)
(***************************************************************************)
EXTENDS Integers, Sequences, FiniteSets, TLC

VARIABLES activities, next_id, today, response,
          users, next_user_id, db_up, strict_dates, photo_url_column, inflight

vars == <<activities, next_id, today, response,
          users, next_user_id, db_up, strict_dates, photo_url_column, inflight>>

NULL == 0 - 1

(***************************************************************************)
(* Bounds of the model.                                                    *)
(***************************************************************************)
MaxActivities == 2
MaxSummaryActivities == 4
MaxTrendActivities == 3

\* rows of the mood specification
MaxMoodActivities == 4

\* rows of the specification of requests in steps
MaxRequestActivities == 2

\* rows and users of the specification of accounts
MaxAccountActivities == 1
MaxUsers == 3

\* rows of the specification of date strings
MaxDateActivities == 2

\* rows of the specification of ownership
MaxOwnedActivities == 2

\* rows of the specification of the analytics handlers
MaxAnalyticsActivities == 2

\* rows of the specification of the deleted accounts
MaxCascadeActivities == 2

(***************************************************************************)
(* Program constants.                                                      *)
(***************************************************************************)
CATEGORIES ==
    << "Sleep", "Physical Activity/Exercise", "Nutrition/Meals",
       "Work/Productivity", "Personal Care/Hygiene", "Social/Leisure",
       "Household Chores/Maintenance", "Mindfulness/Mental Well-being",
       "Transportation/Commute", "Learning/Skill Development" >>

Registered == { CATEGORIES[i] : i \in 1..Len(CATEGORIES) }

MinDuration == 1
MaxDuration == 1440
MinMood == 1
MaxMood == 5
MonthDays == 30
WeekDays == 7

(***************************************************************************)
(* Calendar: date.strftime('%Y-%m-%d') and datetime.strptime(.., same).    *)
(***************************************************************************)
IsLeap(y) == (y % 4 = 0) /\ ((y % 100 # 0) \/ (y % 400 = 0))

DaysBeforeMonth == << 0, 31, 59, 90, 120, 151, 181, 212, 243, 273, 304, 334 >>

DaysInMonth(y, m) ==
    IF m = 2 THEN (IF IsLeap(y) THEN 29 ELSE 28)
    ELSE IF m \in {4, 6, 9, 11} THEN 30 ELSE 31

Strftime(ord) ==
    LET z   == ord + 305
        era == z \div 146097
        doe == z - era * 146097
        yoe == (doe - (doe \div 1460) + (doe \div 36524) - (doe \div 146096)) \div 365
        doy == doe - (365 * yoe + (yoe \div 4) - (yoe \div 100))
        mp  == (5 * doy + 2) \div 153
        d   == doy - ((153 * mp + 2) \div 5) + 1
        m   == IF mp < 10 THEN mp + 3 ELSE mp - 9
        y   == yoe + era * 400 + (IF m <= 2 THEN 1 ELSE 0)
    IN  << y, m, d >>

ValidDateString(s) ==
    /\ s[1] \in 1..9999
    /\ s[2] \in 1..12
    /\ s[3] \in 1..DaysInMonth(s[1], s[2])

Strptime(s) ==
    LET y1 == s[1] - 1
    IN  y1 * 365 + (y1 \div 4) - (y1 \div 100) + (y1 \div 400)
        + DaysBeforeMonth[s[2]]
        + (IF s[2] > 2 /\ IsLeap(s[1]) THEN 1 ELSE 0)
        + s[3]

(***************************************************************************)
(* Rounding.                                                               *)
(***************************************************************************)
\* num/den rounded to the nearest integer, ties to the even neighbour
\* (Python round() of a quotient of integers whose tie is exact).
RoundHalfEven(num, den) ==
    LET q == num \div den
        r == num % den
    IN  IF 2 * r < den THEN q
        ELSE IF 2 * r > den THEN q + 1
        ELSE IF q % 2 = 0 THEN q ELSE q + 1

\* MySQL AVG over n non-negative integers of sum s: DECIMAL with four
\* decimals (div_precision_increment), rounded half up; NULL over no row.
SqlAvg(s, n) ==
    IF n = 0 THEN NULL ELSE (2 * s * 10000 + n) \div (2 * n)

\* 2^k mod 5 for k mod 4 = 0, 1, 2, 3
PowerOfTwoMod5 == <<1, 2, 4, 3>>

\* (52 - e) mod 4 for the e with 5 * 2^e <= q < 5 * 2^(e+1), counted up
\* from lo = 5 * 2^0 and k4 = 52 mod 4
RECURSIVE UlpShift(_, _, _)
UlpShift(q, lo, k4) ==
    IF q < 2 * lo THEN k4 ELSE UlpShift(q, 2 * lo, (k4 + 3) % 4)

\* float(q/20) for q not a multiple of 5: q/20 lies in [2^(e-2), 2^(e-1)), the
\* doubles there are the multiples of 2^(e-54), and q/20 is N/5 of them with
\* N = q * 2^(52-e).  The nearest double lies above q/20 iff N mod 5 >= 3.
DoubleAbove(q) ==
    LET k4 == IF q >= 5 THEN UlpShift(q, 5, 0)
              ELSE IF 2 * q >= 5 THEN 1
              ELSE IF 4 * q >= 5 THEN 2
              ELSE 3
    IN  ((q % 5) * PowerOfTwoMod5[k4 + 1]) % 5 >= 3

\* round(float(x), 1) of a DECIMAL x >= 0 with four decimals, in tenths.
\* The value goes through the nearest binary double: x.x5 is a tie only when
\* the double is exact (x.25, x.75); otherwise the side of the double decides.
PyRound1(x4) ==
    IF x4 % 1000 # 500 THEN (x4 + 500) \div 1000
    ELSE LET q == x4 \div 500
         IN  IF q % 5 = 0 THEN RoundHalfEven(x4, 1000)
             ELSE IF DoubleAbove(q) THEN x4 \div 1000 + 1
             ELSE x4 \div 1000

(***************************************************************************)
(* Aggregates over sets of rows and sets of integers.                      *)
(***************************************************************************)
RECURSIVE SumDuration(_)
SumDuration(rows) ==
    IF rows = {} THEN 0
    ELSE LET r == CHOOSE x \in rows : TRUE
         IN  r.duration_minutes + SumDuration(rows \ {r})

RECURSIVE SumMood(_)
SumMood(rows) ==
    IF rows = {} THEN 0
    ELSE LET r == CHOOSE x \in rows : TRUE
         IN  r.mood_rating + SumMood(rows \ {r})

SetMax(S) == CHOOSE x \in S : \A y \in S : y <= x
SetMin(S) == CHOOSE x \in S : \A y \in S : x <= y

\* ORDER BY ... DESC / ORDER BY ... over a set of distinct dates
RECURSIVE OrderByDesc(_)
OrderByDesc(S) ==
    IF S = {} THEN << >>
    ELSE << SetMax(S) >> \o OrderByDesc(S \ {SetMax(S)})

RECURSIVE OrderByAsc(_)
OrderByAsc(S) ==
    IF S = {} THEN << >>
    ELSE << SetMin(S) >> \o OrderByAsc(S \ {SetMin(S)})

RECURSIVE SumValues(_)
SumValues(f) ==
    IF DOMAIN f = {} THEN 0
    ELSE LET k == CHOOSE x \in DOMAIN f : TRUE
         IN  f[k] + SumValues([x \in (DOMAIN f) \ {k} |-> f[x]])

(***************************************************************************)
(* Request validation (pydantic model ActivityCreate).                     *)
(***************************************************************************)
\* v.strip(); a blank category is rejected
validate_category(v) == v.name

ValidActivityCreate(p) ==
    /\ p.category.name # ""
    /\ p.duration_minutes >= MinDuration
    /\ p.duration_minutes <= MaxDuration
    /\ (p.mood_rating = NULL \/ (p.mood_rating >= MinMood /\ p.mood_rating <= MaxMood))

(***************************************************************************)
(* Comparison of strings by the database.  The VARCHAR columns are created *)
(* without COLLATE, so they compare under the default collation of the     *)
(* server, which ignores case.  CaseFold(text) stands for the class of the *)
(* strings equal to text: the lower-case spelling of the texts that occur  *)
(* in more than one spelling, the text itself for the others.              *)
(***************************************************************************)
CaseFold(text) ==
    CASE text = "ANN@example.com" -> "ann@example.com"
      [] text = "BOB@example.com" -> "bob@example.com"
      [] text = "CAT@example.com" -> "cat@example.com"
      [] text = "Sleep" -> "sleep"
      [] text = "SLEEP" -> "sleep"
      [] OTHER -> text

(***************************************************************************)
(* GET /summary/{summary_date}                                             *)
(***************************************************************************)
\* variant: the query without its user_id condition
SummaryQueryAllUsers(rows_all, u, summary_date) ==
    LET rows == { r \in rows_all : r.activity_date = Strptime(summary_date) }
        Group(r) == { x \in rows : CaseFold(x.category) = CaseFold(r.category) }
        first    == { r \in rows : \A x \in Group(r) : r.id <= x.id }
    IN  [ c \in { r.category : r \in first } |->
            LET g     == Group(CHOOSE r \in first : r.category = c)
                rated == { r \in g : r.mood_rating # NULL }
            IN  [ total_minutes |-> SumDuration(g),
                  entry_count   |-> Cardinality(g),
                  avg_mood      |-> SqlAvg(SumMood(rated), Cardinality(rated)) ] ]

\* SELECT category, SUM(duration_minutes), COUNT(*), AVG(mood_rating)
\* FROM activities WHERE user_id = u AND activity_date = summary_date
\* GROUP BY category.  The rows whose categories differ in case only are one
\* group; the category returned for it is that of the row read first, and
\* the rows of a user are read in the order of their id.
SummaryQuery(rows_all, u, summary_date) ==
    LET rows == { r \in rows_all : r.user_id = u
                                   /\ r.activity_date = Strptime(summary_date) }
        Group(r) == { x \in rows : CaseFold(x.category) = CaseFold(r.category) }
        first    == { r \in rows : \A x \in Group(r) : r.id <= x.id }
    IN  [ c \in { r.category : r \in first } |->
            LET g     == Group(CHOOSE r \in first : r.category = c)
                rated == { r \in g : r.mood_rating # NULL }
            IN  [ total_minutes |-> SumDuration(g),
                  entry_count   |-> Cardinality(g),
                  avg_mood      |-> SqlAvg(SumMood(rated), Cardinality(rated)) ] ]

\* variant: the share of the 1440 minutes of the day
PercentageOfDay(total_minutes, total_logged_minutes) ==
    IF total_logged_minutes > 0
    THEN RoundHalfEven(total_minutes * 1000, MaxDuration)
    ELSE 0

Percentage(total_minutes, total_logged_minutes) ==
    IF total_logged_minutes > 0
    THEN RoundHalfEven(total_minutes * 1000, total_logged_minutes)
    ELSE 0

AverageMood(avg_mood) ==
    IF avg_mood # NULL /\ avg_mood # 0 THEN PyRound1(avg_mood) ELSE NULL

CompletionPercentage(categories) ==
    LET done == { c \in DOMAIN categories : categories[c].duration_minutes > 0 }
    IN  RoundHalfEven(Cardinality(done) * 1000, Len(CATEGORIES))

DailySummary(rows_all, u, summary_date) ==
    LET category_data        == SummaryQuery(rows_all, u, summary_date)
        total_logged_minutes == SumValues([ c \in DOMAIN category_data |->
                                              category_data[c].total_minutes ])
        categories ==
            [ c \in (DOMAIN category_data) \cup Registered |->
                IF c \in DOMAIN category_data
                THEN [ duration_minutes |-> category_data[c].total_minutes,
                       entry_count      |-> category_data[c].entry_count,
                       average_mood     |-> AverageMood(category_data[c].avg_mood),
                       percentage       |-> Percentage(category_data[c].total_minutes,
                                                       total_logged_minutes) ]
                ELSE [ duration_minutes |-> 0,
                       entry_count      |-> 0,
                       average_mood     |-> NULL,
                       percentage       |-> 0 ] ]
    IN  [ date                  |-> Strptime(summary_date),
          total_logged_minutes  |-> total_logged_minutes,
          categories            |-> categories,
          completion_percentage |-> CompletionPercentage(categories) ]

(***************************************************************************)
(* GET /trends                                                             *)
(***************************************************************************)
\* variant: the query without its user_id condition
DailyTotalsAllUsers(rows_all, u, c, since) ==
    LET rows == { r \in rows_all : CaseFold(r.category) = CaseFold(c)
                                   /\ r.activity_date >= since }
        days == { r.activity_date : r \in rows }
    IN  [ d \in days |-> SumDuration({ r \in rows : r.activity_date = d }) ]

\* SELECT activity_date, SUM(duration_minutes) FROM activities
\* WHERE user_id = u AND category = c AND activity_date >= since
\* GROUP BY activity_date
DailyTotals(rows_all, u, c, since) ==
    LET rows == { r \in rows_all : r.user_id = u
                                   /\ CaseFold(r.category) = CaseFold(c)
                                   /\ r.activity_date >= since }
        days == { r.activity_date : r \in rows }
    IN  [ d \in days |-> SumDuration({ r \in rows : r.activity_date = d }) ]

\* SELECT AVG(daily_total) FROM (the query above), then
\* round(float(avg) if avg else 0, 1)
WindowAverage(rows_all, u, c, since) ==
    LET daily_totals == DailyTotals(rows_all, u, c, since)
        avg_minutes  == SqlAvg(SumValues(daily_totals),
                               Cardinality(DOMAIN daily_totals))
    IN  PyRound1(IF avg_minutes # NULL /\ avg_minutes # 0 THEN avg_minutes ELSE 0)

\* SELECT DISTINCT activity_date FROM activities
\* WHERE user_id = u AND category = c ORDER BY activity_date DESC
StreakDates(rows_all, u, c) ==
    LET rows == { r \in rows_all : r.user_id = u
                                   /\ CaseFold(r.category) = CaseFold(c) }
        days == { r.activity_date : r \in rows }
        desc == OrderByDesc(days)
    IN  [ i \in 1..Len(desc) |-> Strftime(desc[i]) ]

RECURSIVE StreakLoop(_, _, _)
StreakLoop(dates, current_date, streak) ==
    IF dates = << >> THEN streak
    ELSE IF Head(dates) = Strftime(current_date)
         THEN StreakLoop(Tail(dates), current_date - 1, streak + 1)
         ELSE streak

DataPoints(rows_all, u, c, since) ==
    LET totals == DailyTotals(rows_all, u, c, since)
        asc    == OrderByAsc(DOMAIN totals)
    IN  [ i \in 1..Len(asc) |-> [ date    |-> Strftime(asc[i]),
                                  minutes |-> totals[asc[i]] ] ]

TrendData(rows_all, u, category, end_date) ==
    LET start_date == end_date - MonthDays
    IN  [ category        |-> category,
          weekly_average  |-> WindowAverage(rows_all, u, category, end_date - WeekDays),
          monthly_average |-> WindowAverage(rows_all, u, category, start_date),
          streak_days     |-> StreakLoop(StreakDates(rows_all, u, category), end_date, 0),
          data_points     |-> DataPoints(rows_all, u, category, end_date - WeekDays) ]

Trends(rows_all, u, end_date) ==
    [ i \in 1..Len(CATEGORIES) |-> TrendData(rows_all, u, CATEGORIES[i], end_date) ]

(***************************************************************************)
(* Tokens.                                                                 *)
(***************************************************************************)
\* jwt.encode of {user_id, exp: now + 30 days, iat, type: access_token}
create_token(user_id) ==
    [ user_id |-> user_id, type |-> "access_token", signed |-> TRUE, expired |-> FALSE ]

\* variant: the token is accepted on its signature alone
TokenAcceptedUnchecked(credentials) ==
    /\ credentials.signed
    /\ ~credentials.expired
    /\ credentials.user_id # NULL
    /\ credentials.type = "access_token"

\* verify_token returns the user_id; every other path raises 401 (a failed
\* connection inside it is caught by its last except clause and is a 401 too)
TokenAccepted(credentials) ==
    /\ credentials.signed
    /\ ~credentials.expired
    /\ credentials.user_id # NULL
    /\ credentials.type = "access_token"
    /\ db_up
    /\ \E x \in users : x.id = credentials.user_id /\ x.is_active

(***************************************************************************)
(* Handlers.  user_id (u) is the user returned by verify_token.  A handler *)
(* is taken statement by statement: inflight[c] is the position of the     *)
(* request of client c, and one step is one round trip to the database     *)
(* with the Python code up to the next one.  conn.commit() is a round trip *)
(* as well: it fails (500) when the server has stopped, after the          *)
(* statement before it took effect.  Where a SELECT follows the commit,    *)
(* the two are one step: each of them fails with 500 on a stopped server   *)
(* and the commit changes nothing (create_activity, update_activity,       *)
(* update_user_profile).                                                   *)
(***************************************************************************)
UserIds == {1, 2}

Clients == {1, 2}

Idle == [ pc |-> "idle" ]

Rejected(code) == [ kind |-> "error", status |-> code ]

\* HTTPException(404) of a route that names an activity by its id; the record
\* keeps the id and the user of the request it answers
NotFound(activity_id, u) ==
    [ kind |-> "error", status |-> 404, activity_id |-> activity_id, user_id |-> u ]

\* IntegrityError 1062 on the UNIQUE index of users.email, turned into
\* HTTPException(500) by get_db: "Database connection failed: 1062 ..."
DuplicateEntry == [ kind |-> "error", status |-> 500, detail |-> "Duplicate entry" ]

\* the outcome of an analytics request that raised
Failed(code, detail, request) ==
    [ kind |-> "error", status |-> code, detail |-> detail, request |-> request ]

\* get_db turns an error of the connector into HTTPException(500)
DependencyFailure(request) == Failed(500, "Database connection failed", request)

\* an exception no handler catches is answered by the server with 500
Unhandled(request) == Failed(500, "Internal Server Error", request)

UserIdsStored == { x.id : x \in users }

\* the address written with a capital local part
UpperText(name) ==
    CASE name = "ann@example.com" -> "ANN@example.com"
      [] name = "bob@example.com" -> "BOB@example.com"
      [] name = "cat@example.com" -> "CAT@example.com"

\* the string of the request body: EmailStr keeps the case of the local part
Text(email) == IF email.upper THEN UpperText(email.name) ELSE email.name

\* SELECT id FROM users WHERE email = text
HoldersOf(text) == { x \in users : CaseFold(x.email) = CaseFold(text) }

\* user.email.lower()
Lower(email) == email.name

(***************************************************************************)
(* verify_token, the dependency of every protected route: it runs before   *)
(* the handler, on a connection of its own.                                *)
(***************************************************************************)
Verified(u, req) == [ pc |-> "verified", user_id |-> u, req |-> req ]

\* The HTTPException(401) of verify_token.  jwt.decode raises on a bad
\* signature before it looks at exp; the 401s raised inside the try block and
\* a failure of the database are caught by the last except clause and raised
\* again as "Token validation failed".
TokenRefusal(credentials) ==
    [ kind |-> "error", status |-> 401,
      detail |-> IF ~credentials.signed THEN "Invalid token"
                 ELSE IF credentials.expired THEN "Token has expired"
                 ELSE "Token validation failed" ]

Authorize(c, credentials, req) ==
    /\ inflight[c] = Idle
    /\ IF TokenAccepted(credentials)
       THEN /\ inflight' = [ inflight EXCEPT ![c] = Verified(credentials.user_id, req) ]
            /\ UNCHANGED response
       ELSE /\ response' = TokenRefusal(credentials)
            /\ UNCHANGED inflight
    /\ UNCHANGED <<activities, next_id, today, users, next_user_id, db_up, strict_dates, photo_url_column>>

(***************************************************************************)
(* delete_user: the SELECT of the user, the DELETE and the commit.         *)
(***************************************************************************)
\* SELECT id FROM users WHERE id = %s, and the 404 without a row
DeleteUserSelect(c, u) ==
    /\ IF ~db_up
       THEN /\ response' = Rejected(500)
            /\ inflight' = [ inflight EXCEPT ![c] = Idle ]
       ELSE IF u \notin UserIdsStored
       THEN /\ response' = Rejected(404)
            /\ inflight' = [ inflight EXCEPT ![c] = Idle ]
       ELSE /\ inflight' = [ inflight EXCEPT ![c] = [ pc |-> "delete_user", user_id |-> u ] ]
            /\ UNCHANGED response
    /\ UNCHANGED <<activities, next_id, today, users, next_user_id, db_up, strict_dates, photo_url_column>>

\* DELETE FROM users WHERE id = %s.  The activities table of init_db has the
\* foreign key on user_id with ON DELETE CASCADE, the one of create_tables
\* has no foreign key and keeps the rows of the user.  The rowcount is not
\* looked at: the handler goes on also when the row is gone by now.
DeleteUserStatement(c) ==
    /\ inflight[c].pc = "delete_user"
    /\ IF ~db_up
       THEN /\ response' = Rejected(500)
            /\ inflight' = [ inflight EXCEPT ![c] = Idle ]
            /\ UNCHANGED <<users, activities>>
       ELSE /\ users' = { x \in users : x.id # inflight[c].user_id }
            /\ activities' = IF photo_url_column THEN activities
                             ELSE { r \in activities : r.user_id # inflight[c].user_id }
            /\ inflight' = [ inflight EXCEPT ![c] = [ pc |-> "user_deleted" ] ]
            /\ UNCHANGED response
    /\ UNCHANGED <<next_id, today, next_user_id, db_up, strict_dates, photo_url_column>>

\* conn.commit() and the response
DeleteUserCommit(c) ==
    /\ inflight[c].pc = "user_deleted"
    /\ inflight' = [ inflight EXCEPT ![c] = Idle ]
    /\ response' = IF ~db_up THEN Rejected(500)
                   ELSE [ kind |-> "user_deleted", status |-> 200 ]
    /\ UNCHANGED <<activities, next_id, today, users, next_user_id, db_up, strict_dates, photo_url_column>>

(***************************************************************************)
(* create_activity: the INSERT and the SELECT of the created row.          *)
(***************************************************************************)
\* the row of INSERT INTO activities (...) VALUES (...)
NewActivity(u, p) ==
    [ id               |-> next_id,
      user_id          |-> u,
      category         |-> validate_category(p.category),
      duration_minutes |-> p.duration_minutes,
      mood_rating      |-> p.mood_rating,
      activity_date    |-> IF p.activity_date = NULL THEN today ELSE p.activity_date ]

\* The validation of the body (422), the connection and the INSERT.  The
\* INSERT raises without a connection and on a table without the column
\* photo_url that it names (error 1054, before a row or the foreign key of
\* that table is looked at).  The table with the column has no foreign key:
\* the row is stored also for a user_id that is no user any more.
InsertActivity(c, u, p) ==
    /\ IF ~ValidActivityCreate(p)
       THEN /\ response' = Rejected(422)
            /\ inflight' = [ inflight EXCEPT ![c] = Idle ]
            /\ UNCHANGED <<activities, next_id>>
       ELSE IF ~db_up \/ ~photo_url_column
       THEN /\ response' = Rejected(500)
            /\ inflight' = [ inflight EXCEPT ![c] = Idle ]
            /\ UNCHANGED <<activities, next_id>>
       ELSE /\ activities' = activities \cup { NewActivity(u, p) }
            /\ next_id' = next_id + 1
            /\ inflight' = [ inflight EXCEPT ![c] =
                               [ pc |-> "created", activity_id |-> next_id ] ]
            /\ UNCHANGED response
    /\ UNCHANGED <<today, users, next_user_id, db_up, strict_dates, photo_url_column>>

\* conn.commit(), SELECT * FROM activities WHERE id = activity_id and the
\* ActivityResponse built from the row.  The request is answered 500 on
\* every path: the commit or the SELECT fails (get_db); the row is gone and
\* the subscript of None raises TypeError; the row is there, stored by the
\* table of create_tables with created_at NULL (the column has no default
\* and the INSERT does not name it), and ActivityResponse, whose created_at
\* is a datetime, raises ValidationError.
CreatedQuery(c) ==
    /\ inflight[c].pc = "created"
    /\ inflight' = [ inflight EXCEPT ![c] = Idle ]
    /\ response' = Rejected(500)
    /\ UNCHANGED <<activities, next_id, today, users, next_user_id, db_up, strict_dates, photo_url_column>>

(***************************************************************************)
(* get_activity: one statement.  delete_activity,                          *)
(* delete_activities_by_date and delete_multiple_activities: the DELETE    *)
(* and the commit.                                                         *)
(***************************************************************************)
\* variant: SELECT * FROM activities WHERE id = activity_id
get_activity_of_anyone(activity_id, u) ==
    /\ response' =
          IF ~db_up THEN Rejected(500)
          ELSE IF ~(\E r \in activities : r.id = activity_id) THEN NotFound(activity_id, u)
          ELSE IF ~photo_url_column THEN Rejected(500)
          ELSE [ kind |-> "activity", status |-> 200,
                 activity |-> CHOOSE r \in activities : r.id = activity_id ]
    /\ UNCHANGED <<activities, next_id, today, users, next_user_id, db_up, strict_dates, photo_url_column>>

\* SELECT * FROM activities WHERE id = %s AND user_id = %s; 404 without a
\* row; a row of a table without the column photo_url has no such key and
\* the subscript raises KeyError (500)
get_activity(activity_id, u) ==
    /\ response' =
          IF ~db_up THEN Rejected(500)
          ELSE IF ~(\E r \in activities : r.id = activity_id /\ r.user_id = u)
          THEN NotFound(activity_id, u)
          ELSE IF ~photo_url_column THEN Rejected(500)
          ELSE [ kind |-> "activity", status |-> 200,
                 activity |-> CHOOSE r \in activities : r.id = activity_id /\ r.user_id = u ]
    /\ UNCHANGED <<activities, next_id, today, users, next_user_id, db_up, strict_dates, photo_url_column>>

\* DELETE FROM activities WHERE id = %s AND user_id = %s, and the 404 when
\* rowcount is 0
delete_activity(c, activity_id, u) ==
    /\ IF ~db_up
       THEN /\ response' = Rejected(500)
            /\ inflight' = [ inflight EXCEPT ![c] = Idle ]
            /\ UNCHANGED activities
       ELSE IF ~(\E r \in activities : r.id = activity_id /\ r.user_id = u)
       THEN /\ response' = NotFound(activity_id, u)
            /\ inflight' = [ inflight EXCEPT ![c] = Idle ]
            /\ UNCHANGED activities
       ELSE /\ activities' = { r \in activities : ~(r.id = activity_id /\ r.user_id = u) }
            /\ inflight' = [ inflight EXCEPT ![c] = [ pc |-> "deleted" ] ]
            /\ UNCHANGED response
    /\ UNCHANGED <<next_id, today, users, next_user_id, db_up, strict_dates, photo_url_column>>

\* conn.commit() and the response of delete_activity
delete_activity_commit(c) ==
    /\ inflight[c].pc = "deleted"
    /\ inflight' = [ inflight EXCEPT ![c] = Idle ]
    /\ response' = IF ~db_up THEN Rejected(500)
                   ELSE [ kind |-> "deleted", status |-> 200, deleted_count |-> 1 ]
    /\ UNCHANGED <<activities, next_id, today, users, next_user_id, db_up, strict_dates, photo_url_column>>

\* DELETE FROM activities WHERE activity_date = %s AND user_id = %s, and
\* deleted_count = cursor.rowcount
delete_activities_by_date(c, activity_date, u) ==
    /\ IF ~db_up
       THEN /\ response' = Rejected(500)
            /\ inflight' = [ inflight EXCEPT ![c] = Idle ]
            /\ UNCHANGED activities
       ELSE LET gone == { r \in activities : r.activity_date = activity_date /\ r.user_id = u }
            IN  /\ activities' = activities \ gone
                /\ inflight' = [ inflight EXCEPT ![c] =
                                   [ pc |-> "deleted_by_date",
                                     deleted_count |-> Cardinality(gone) ] ]
                /\ UNCHANGED response
    /\ UNCHANGED <<next_id, today, users, next_user_id, db_up, strict_dates, photo_url_column>>

\* conn.commit() and the response of delete_activities_by_date
delete_activities_by_date_commit(c) ==
    /\ inflight[c].pc = "deleted_by_date"
    /\ inflight' = [ inflight EXCEPT ![c] = Idle ]
    /\ response' = IF ~db_up THEN Rejected(500)
                   ELSE [ kind |-> "deleted", status |-> 200,
                          deleted_count |-> inflight[c].deleted_count ]
    /\ UNCHANGED <<activities, next_id, today, users, next_user_id, db_up, strict_dates, photo_url_column>>

\* delete_multiple_activities: the 400 for an empty list, then DELETE FROM
\* activities WHERE id IN (...) AND user_id = %s and deleted_count =
\* cursor.rowcount; activity_ids is the set of the ids of the list.  (The
\* route /activities/bulk is registered after /activities/{activity_id},
\* which answers 422 to DELETE /activities/bulk; the handler is a function
\* of the module and is taken as called.)
delete_multiple_activities(c, activity_ids, u) ==
    /\ IF activity_ids = {}
       THEN /\ response' = Rejected(400)
            /\ inflight' = [ inflight EXCEPT ![c] = Idle ]
            /\ UNCHANGED activities
       ELSE IF ~db_up
       THEN /\ response' = Rejected(500)
            /\ inflight' = [ inflight EXCEPT ![c] = Idle ]
            /\ UNCHANGED activities
       ELSE LET gone == { r \in activities : r.id \in activity_ids /\ r.user_id = u }
            IN  /\ activities' = activities \ gone
                /\ inflight' = [ inflight EXCEPT ![c] =
                                   [ pc |-> "deleted_multiple",
                                     deleted_count |-> Cardinality(gone) ] ]
                /\ UNCHANGED response
    /\ UNCHANGED <<next_id, today, users, next_user_id, db_up, strict_dates, photo_url_column>>

\* conn.commit() and the response of delete_multiple_activities
delete_multiple_activities_commit(c) ==
    /\ inflight[c].pc = "deleted_multiple"
    /\ inflight' = [ inflight EXCEPT ![c] = Idle ]
    /\ response' = IF ~db_up THEN Rejected(500)
                   ELSE [ kind |-> "deleted", status |-> 200,
                          deleted_count |-> inflight[c].deleted_count ]
    /\ UNCHANGED <<activities, next_id, today, users, next_user_id, db_up, strict_dates, photo_url_column>>

(***************************************************************************)
(* update_activity: the SELECT of the row, the UPDATE and the SELECT of    *)
(* the updated row.                                                        *)
(***************************************************************************)
\* the validation of the body (422), the connection, and SELECT id FROM
\* activities WHERE id = %s AND user_id = %s with the 404 without a row
UpdateSelect(c, activity_id, u, p) ==
    /\ IF ~ValidActivityCreate(p)
       THEN /\ response' = Rejected(422)
            /\ inflight' = [ inflight EXCEPT ![c] = Idle ]
       ELSE IF ~db_up
       THEN /\ response' = Rejected(500)
            /\ inflight' = [ inflight EXCEPT ![c] = Idle ]
       ELSE IF ~(\E r \in activities : r.id = activity_id /\ r.user_id = u)
       THEN /\ response' = NotFound(activity_id, u)
            /\ inflight' = [ inflight EXCEPT ![c] = Idle ]
       ELSE /\ inflight' = [ inflight EXCEPT ![c] =
                               [ pc          |-> "update",
                                 activity_id |-> activity_id,
                                 user_id     |-> u,
                                 payload     |-> p ] ]
            /\ UNCHANGED response
    /\ UNCHANGED <<activities, next_id, today, users, next_user_id, db_up, strict_dates, photo_url_column>>

\* UPDATE activities SET ... WHERE id = %s AND user_id = %s.  The statement
\* names the column photo_url (error 1054 on a table without it); it changes
\* no row when the row is gone by now, and the handler goes on.
UpdateStatement(c) ==
    LET st == inflight[c]
        p  == st.payload
    IN  /\ st.pc = "update"
        /\ IF ~db_up \/ ~photo_url_column
           THEN /\ response' = Rejected(500)
                /\ inflight' = [ inflight EXCEPT ![c] = Idle ]
                /\ UNCHANGED activities
           ELSE /\ activities' =
                     { IF r.id = st.activity_id /\ r.user_id = st.user_id
                       THEN [ r EXCEPT
                                !.category         = validate_category(p.category),
                                !.duration_minutes = p.duration_minutes,
                                !.mood_rating      = p.mood_rating,
                                !.activity_date    = IF p.activity_date = NULL THEN today
                                                     ELSE p.activity_date ]
                       ELSE r : r \in activities }
                /\ inflight' = [ inflight EXCEPT ![c] =
                                   [ pc |-> "updated", activity_id |-> st.activity_id ] ]
                /\ UNCHANGED response
        /\ UNCHANGED <<next_id, today, users, next_user_id, db_up, strict_dates, photo_url_column>>

\* SELECT * FROM activities WHERE id = activity_id and the dict built from
\* it; the subscript of None raises TypeError (500) when the row is gone
UpdatedOutcome(rows, activity_id) ==
    IF \E r \in rows : r.id = activity_id
    THEN [ kind |-> "activity", status |-> 200,
           activity |-> CHOOSE r \in rows : r.id = activity_id ]
    ELSE Rejected(500)

\* conn.commit(), the SELECT of the updated row and the response
UpdatedQuery(c) ==
    /\ inflight[c].pc = "updated"
    /\ inflight' = [ inflight EXCEPT ![c] = Idle ]
    /\ response' = IF ~db_up THEN Rejected(500)
                   ELSE UpdatedOutcome(activities, inflight[c].activity_id)
    /\ UNCHANGED <<activities, next_id, today, users, next_user_id, db_up, strict_dates, photo_url_column>>

(***************************************************************************)
(* get_daily_summary: one statement.                                       *)
(***************************************************************************)
\* variant: a failed read is answered with the summary of no record
SummaryOutcomeSwallowed(summary_date, u) ==
    LET request == [ user_id |-> u, summary_date |-> summary_date ]
    IN  IF ~ValidDateString(summary_date)
        THEN IF db_up /\ ~strict_dates THEN Unhandled(request)
             ELSE DependencyFailure(request)
        ELSE [ kind    |-> "summary", status |-> 200, request |-> request,
               summary |-> DailySummary(IF db_up THEN activities ELSE {},
                                        u, summary_date) ]

\* The connection or the query fails inside get_db (500).  A string that is
\* no date either fails the query (strict_dates) or selects no row, and then
\* strptime raises ValueError, which no handler catches (500).
SummaryOutcome(summary_date, u) ==
    LET request == [ user_id |-> u, summary_date |-> summary_date ]
    IN  IF ~db_up THEN DependencyFailure(request)
        ELSE IF ~ValidDateString(summary_date)
        THEN IF strict_dates THEN DependencyFailure(request) ELSE Unhandled(request)
        ELSE [ kind    |-> "summary", status |-> 200, request |-> request,
               summary |-> DailySummary(activities, u, summary_date) ]

\* variant: the summary is answered and the user's records of the other
\* dates are purged
get_daily_summary_purging(summary_date, u) ==
    /\ response' = SummaryOutcome(summary_date, u)
    /\ activities' = IF db_up /\ ValidDateString(summary_date)
                     THEN { r \in activities :
                              r.user_id = u => r.activity_date = Strptime(summary_date) }
                     ELSE activities
    /\ UNCHANGED <<next_id, today, users, next_user_id, db_up, strict_dates, photo_url_column>>

get_daily_summary(summary_date, u) ==
    /\ response' = SummaryOutcome(summary_date, u)
    /\ UNCHANGED <<activities, next_id, today, users, next_user_id, db_up, strict_dates, photo_url_column>>

(***************************************************************************)
(* get_trends: the connection, then four queries for each category, each   *)
(* its own transaction on the autocommit connection.                       *)
(***************************************************************************)
\* get_db, end_date = date.today() and the empty list
BeginTrends(c, u) ==
    /\ IF ~db_up
       THEN /\ response' = DependencyFailure([ user_id |-> u ])
            /\ inflight' = [ inflight EXCEPT ![c] = Idle ]
       ELSE /\ inflight' = [ inflight EXCEPT ![c] =
                               [ pc          |-> "trends",
                                 user_id     |-> u,
                                 end_date    |-> today,
                                 i           |-> 1,
                                 q           |-> 1,
                                 monthly_avg |-> 0,
                                 weekly_avg  |-> 0,
                                 streak      |-> 0,
                                 trends      |-> << >> ] ]
            /\ UNCHANGED response
    /\ UNCHANGED <<activities, next_id, today, users, next_user_id, db_up, strict_dates, photo_url_column>>

\* one cursor.execute of the loop with the Python code up to the next one
TrendsQuery(c) ==
    LET st       == inflight[c]
        u        == st.user_id
        category == CATEGORIES[st.i]
    IN  /\ st.pc = "trends"
        /\ IF ~db_up
           THEN /\ response' = DependencyFailure([ user_id |-> u ])
                /\ inflight' = [ inflight EXCEPT ![c] = Idle ]
           ELSE CASE st.q = 1 ->
                  /\ inflight' = [ inflight EXCEPT ![c] =
                        [ st EXCEPT !.q = 2, !.monthly_avg =
                            WindowAverage(activities, u, category, st.end_date - MonthDays) ] ]
                  /\ UNCHANGED response
             [] st.q = 2 ->
                  /\ inflight' = [ inflight EXCEPT ![c] =
                        [ st EXCEPT !.q = 3, !.weekly_avg =
                            WindowAverage(activities, u, category, st.end_date - WeekDays) ] ]
                  /\ UNCHANGED response
             [] st.q = 3 ->
                  /\ inflight' = [ inflight EXCEPT ![c] =
                        [ st EXCEPT !.q = 4, !.streak =
                            StreakLoop(StreakDates(activities, u, category), st.end_date, 0) ] ]
                  /\ UNCHANGED response
             [] st.q = 4 ->
                  LET entry == [ category        |-> category,
                                 weekly_average  |-> st.weekly_avg,
                                 monthly_average |-> st.monthly_avg,
                                 streak_days     |-> st.streak,
                                 data_points     |-> DataPoints(activities, u, category,
                                                                st.end_date - WeekDays) ]
                      trends == Append(st.trends, entry)
                  IN  IF st.i = Len(CATEGORIES)
                      THEN /\ response' = [ kind    |-> "trends", status |-> 200,
                                            request |-> [ user_id |-> u ],
                                            trends  |-> trends ]
                           /\ inflight' = [ inflight EXCEPT ![c] = Idle ]
                      ELSE /\ inflight' = [ inflight EXCEPT ![c] =
                                 [ st EXCEPT !.i = st.i + 1, !.q = 1, !.trends = trends,
                                             !.monthly_avg = 0, !.weekly_avg = 0,
                                             !.streak = 0 ] ]
                           /\ UNCHANGED response
        /\ UNCHANGED <<activities, next_id, today, users, next_user_id, db_up, strict_dates, photo_url_column>>

(***************************************************************************)
(* register and update_user_profile.  Each handler first selects the users *)
(* that hold the e-mail address and then writes; the statements are        *)
(* transactions of their own, and the UNIQUE index on users.email is what  *)
(* the write itself is checked against.                                    *)
(***************************************************************************)
\* SELECT id FROM users WHERE email = %s, and the return when a row is found
RegisterSelect(c, email) ==
    /\ IF ~db_up
       THEN /\ response' = Rejected(500)
            /\ inflight' = [ inflight EXCEPT ![c] = Idle ]
       ELSE IF HoldersOf(Lower(email)) # {}
       THEN /\ response' = [ kind |-> "exists", status |-> 200 ]
            /\ inflight' = [ inflight EXCEPT ![c] = Idle ]
       ELSE /\ inflight' = [ inflight EXCEPT ![c] =
                               [ pc |-> "register", email |-> email ] ]
            /\ UNCHANGED response
    /\ UNCHANGED <<activities, next_id, today, users, next_user_id, db_up, strict_dates, photo_url_column>>

\* variant: the users table has no UNIQUE index on email
RegisterInsertUnindexed(c) ==
    /\ inflight[c].pc = "register"
    /\ IF ~db_up
       THEN /\ response' = Rejected(500)
            /\ inflight' = [ inflight EXCEPT ![c] = Idle ]
            /\ UNCHANGED <<users, next_user_id>>
       ELSE /\ users' = users \cup { [ id        |-> next_user_id,
                                       email     |-> Lower(inflight[c].email),
                                       is_active |-> TRUE ] }
            /\ next_user_id' = next_user_id + 1
            /\ inflight' = [ inflight EXCEPT ![c] =
                               [ pc |-> "registered", user_id |-> next_user_id ] ]
            /\ UNCHANGED response
    /\ UNCHANGED <<activities, next_id, today, db_up, strict_dates, photo_url_column>>

\* INSERT INTO users ... and user_id = cursor.lastrowid.  An INSERT that
\* breaks the UNIQUE index raises IntegrityError, answered 500, after the
\* AUTO_INCREMENT value of the row was taken: the value is not given back.
RegisterInsert(c) ==
    /\ inflight[c].pc = "register"
    /\ IF ~db_up
       THEN /\ response' = Rejected(500)
            /\ inflight' = [ inflight EXCEPT ![c] = Idle ]
            /\ UNCHANGED <<users, next_user_id>>
       ELSE IF HoldersOf(Lower(inflight[c].email)) # {}
       THEN /\ response' = DuplicateEntry
            /\ inflight' = [ inflight EXCEPT ![c] = Idle ]
            /\ next_user_id' = next_user_id + 1
            /\ UNCHANGED users
       ELSE /\ users' = users \cup { [ id        |-> next_user_id,
                                       email     |-> Lower(inflight[c].email),
                                       is_active |-> TRUE ] }
            /\ next_user_id' = next_user_id + 1
            /\ inflight' = [ inflight EXCEPT ![c] =
                               [ pc |-> "registered", user_id |-> next_user_id ] ]
            /\ UNCHANGED response
    /\ UNCHANGED <<activities, next_id, today, db_up, strict_dates, photo_url_column>>

\* conn.commit(), create_token(user_id) and the response; a failed commit
\* is answered 500 without a token, and the user stays stored
RegisterCommit(c) ==
    /\ inflight[c].pc = "registered"
    /\ inflight' = [ inflight EXCEPT ![c] = Idle ]
    /\ response' = IF ~db_up THEN Rejected(500)
                   ELSE [ kind |-> "registered", status |-> 200,
                          token |-> create_token(inflight[c].user_id) ]
    /\ UNCHANGED <<activities, next_id, today, users, next_user_id, db_up, strict_dates, photo_url_column>>

\* SELECT id FROM users WHERE email = %s AND id != %s of a request whose
\* only field is email, and the 400 when a row is found
ProfileSelect(c, u, email) ==
    /\ IF ~db_up
       THEN /\ response' = Rejected(500)
            /\ inflight' = [ inflight EXCEPT ![c] = Idle ]
       ELSE IF \E x \in HoldersOf(Text(email)) : x.id # u
       THEN /\ response' = Rejected(400)
            /\ inflight' = [ inflight EXCEPT ![c] = Idle ]
       ELSE /\ inflight' = [ inflight EXCEPT ![c] =
                               [ pc |-> "profile", user_id |-> u, email |-> email ] ]
            /\ UNCHANGED response
    /\ UNCHANGED <<activities, next_id, today, users, next_user_id, db_up, strict_dates, photo_url_column>>

\* UPDATE users SET email = %s WHERE id = %s.  Without a row of that id, or
\* with the address the row has already, no row is changed: rowcount is 0
\* and the answer 404.  A changed address that another row holds raises
\* IntegrityError on the UNIQUE index (500).
ProfileUpdate(c) ==
    LET u    == inflight[c].user_id
        text == Text(inflight[c].email)
    IN  /\ inflight[c].pc = "profile"
        /\ IF ~db_up
           THEN /\ response' = Rejected(500)
                /\ inflight' = [ inflight EXCEPT ![c] = Idle ]
                /\ UNCHANGED users
           ELSE IF ~(\E x \in users : x.id = u /\ x.email # text)
           THEN /\ response' = Rejected(404)
                /\ inflight' = [ inflight EXCEPT ![c] = Idle ]
                /\ UNCHANGED users
           ELSE IF \E x \in HoldersOf(text) : x.id # u
           THEN /\ response' = DuplicateEntry
                /\ inflight' = [ inflight EXCEPT ![c] = Idle ]
                /\ UNCHANGED users
           ELSE /\ users' = { IF x.id = u THEN [ x EXCEPT !.email = text ] ELSE x
                                : x \in users }
                /\ inflight' = [ inflight EXCEPT ![c] =
                                   [ pc |-> "profile_updated", user_id |-> u ] ]
                /\ UNCHANGED response
        /\ UNCHANGED <<activities, next_id, today, next_user_id, db_up, strict_dates, photo_url_column>>

\* conn.commit(), SELECT id, email, ... FROM users WHERE id = %s and the
\* response; the subscript of None raises TypeError (500) when the row is
\* gone
ProfileQuery(c) ==
    LET u == inflight[c].user_id
    IN  /\ inflight[c].pc = "profile_updated"
        /\ inflight' = [ inflight EXCEPT ![c] = Idle ]
        /\ response' =
              IF ~db_up \/ u \notin UserIdsStored THEN Rejected(500)
              ELSE [ kind |-> "profile", status |-> 200,
                     user |-> [ id    |-> u,
                                email |-> (CHOOSE x \in users : x.id = u).email ] ]
        /\ UNCHANGED <<activities, next_id, today, users, next_user_id, db_up, strict_dates, photo_url_column>>

(***************************************************************************)
(* The database server stops answering, and answers again.                 *)
(***************************************************************************)
DbFail ==
    /\ db_up
    /\ db_up' = FALSE
    /\ UNCHANGED <<activities, next_id, today, response, users, next_user_id,
                   strict_dates, photo_url_column, inflight>>

DbRecover ==
    /\ ~db_up
    /\ db_up' = TRUE
    /\ UNCHANGED <<activities, next_id, today, response, users, next_user_id,
                   strict_dates, photo_url_column, inflight>>

(***************************************************************************)
(* Requests.  Dates of the requests are taken relative to the clock.       *)
(***************************************************************************)
Email(name) == [ name |-> name, upper |-> FALSE ]

UpperEmail(name) == [ name |-> name, upper |-> TRUE ]

\* the two users of the service have registered
RegisteredUsers ==
    { [ id |-> 1, email |-> "ann@example.com", is_active |-> TRUE ],
      [ id |-> 2, email |-> "bob@example.com", is_active |-> TRUE ] }

\* 2024-01-02 and 2024-03-01 (the day after a 29 February)
TodayChoices == {738887, 738946}

Cat(name) == [ name |-> name, pad |-> FALSE ]

Padded(name) == [ name |-> name, pad |-> TRUE ]

ActivityCreate(category, duration_minutes, mood_rating, activity_date) ==
    [ category         |-> category,
      duration_minutes |-> duration_minutes,
      mood_rating      |-> mood_rating,
      activity_date    |-> activity_date ]

Payloads(t) ==
    { ActivityCreate(Cat("Sleep"), 480, NULL, t - 1),
      ActivityCreate(Padded("Sleep"), 480, 4, NULL),
      ActivityCreate(Cat("Work/Productivity"), 60, 3, NULL),
      ActivityCreate(Cat("sleep"), 45, NULL, t),
      ActivityCreate(Padded(""), 30, NULL, t),
      ActivityCreate(Cat("Sleep"), 0, NULL, t),
      ActivityCreate(Cat("Sleep"), 30, 6, t) }

SummaryDates(t) == { Strftime(t), Strftime(t - 1), <<2024, 2, 30>> }

SummaryPayloads(t) ==
    { ActivityCreate(Cat("Sleep"), 1, NULL, t),
      ActivityCreate(Cat("Sleep"), 5, 4, t),
      ActivityCreate(Cat("Physical Activity/Exercise"), 5, 5, t),
      ActivityCreate(Cat("Nutrition/Meals"), 5, NULL, t),
      ActivityCreate(Cat("Work/Productivity"), 5, NULL, t),
      ActivityCreate(Cat("Gaming"), 5, NULL, t),
      ActivityCreate(Cat("sleep"), 5, NULL, t),
      ActivityCreate(Cat("Sleep"), 5, NULL, t - 1) }

SummaryRequests(t) ==
    { [ user_id |-> 1, payload |-> p ] : p \in SummaryPayloads(t) }
    \cup { [ user_id |-> 2, payload |-> ActivityCreate(Cat("Sleep"), 5, NULL, t) ] }

TrendOffsets == { 0 - 31, 0 - 30, 0 - 8, 0 - 7, 0 - 2, 0 - 1, 0, 1 }

TrendRequests(t) ==
    { [ user_id |-> 1, payload |-> ActivityCreate(Cat("Sleep"), 40, NULL, t + o) ]
        : o \in TrendOffsets }
    \cup { [ user_id |-> 1, payload |-> ActivityCreate(Cat("Sleep"), 15, NULL, t + o) ]
        : o \in { 0 - 1, 0 } }
    \cup { [ user_id |-> 1, payload |-> ActivityCreate(Cat("SLEEP"), 20, NULL, t + o) ]
        : o \in { 0 - 1, 0 } }
    \cup { [ user_id |-> 2, payload |-> ActivityCreate(Cat("Sleep"), 40, NULL, t) ],
           [ user_id |-> 1, payload |-> ActivityCreate(Cat("Work/Productivity"), 40, NULL, t) ] }

(***************************************************************************)
(* The activity handlers and the daily summary, small requests.  The       *)
(* requests of client 1 run through one server process, one at a time (the *)
(* body of a handler is not interrupted inside its process); the DELETE    *)
(* requests are those of client 2, served by another process, and the      *)
(* database server comes and goes, also between two statements of one      *)
(* request.                                                                *)
(***************************************************************************)
Init ==
    /\ activities = {}
    /\ next_id = 1
    /\ today = 738887
    /\ response = [ kind |-> "none" ]
    /\ users = RegisteredUsers
    /\ next_user_id = 3
    /\ db_up = TRUE
    /\ strict_dates = TRUE
    /\ photo_url_column \in BOOLEAN
    /\ inflight = [ c \in Clients |-> Idle ]

CreateActivity ==
    /\ inflight[1] = Idle
    /\ next_id <= MaxActivities
    /\ \E u \in UserIds, p \in Payloads(today) : InsertActivity(1, u, p)

\* the bodies of the update requests are the payloads that rate the mood
UpdateActivity ==
    /\ inflight[1] = Idle
    /\ \E id \in 1..MaxActivities, u \in UserIds,
          p \in { q \in Payloads(today) : q.mood_rating # NULL } :
          UpdateSelect(1, id, u, p)

GetActivity ==
    /\ inflight[1] = Idle
    /\ \E id \in 1..MaxActivities, u \in UserIds : get_activity(id, u)
    /\ UNCHANGED inflight

\* the DELETE requests of client 2 fall also between two statements of the
\* request of client 1
DeleteActivity ==
    /\ inflight[2] = Idle
    /\ \E id \in 1..MaxActivities, u \in UserIds : delete_activity(2, id, u)

DeleteActivitiesByDate ==
    /\ inflight[2] = Idle
    /\ \E d \in {today - 1, today}, u \in UserIds : delete_activities_by_date(2, d, u)

DeleteMultipleActivities ==
    /\ inflight[2] = Idle
    /\ \E activity_ids \in { {}, 1..MaxActivities }, u \in UserIds :
          delete_multiple_activities(2, activity_ids, u)

GetDailySummary ==
    /\ inflight[1] = Idle
    /\ \E d \in SummaryDates(today), u \in UserIds : get_daily_summary(d, u)
    /\ UNCHANGED inflight

Next ==
    \/ CreateActivity
    \/ CreatedQuery(1)
    \/ UpdateActivity
    \/ UpdateStatement(1)
    \/ UpdatedQuery(1)
    \/ GetActivity
    \/ DeleteActivity
    \/ delete_activity_commit(2)
    \/ DeleteActivitiesByDate
    \/ delete_activities_by_date_commit(2)
    \/ DeleteMultipleActivities
    \/ delete_multiple_activities_commit(2)
    \/ GetDailySummary
    \/ DbFail
    \/ DbRecover

Spec == Init /\ [][Next]_vars

(***************************************************************************)
(* The daily summary over days with many categories.                       *)
(***************************************************************************)
SummaryCreateActivity ==
    /\ inflight[1] = Idle
    /\ next_id <= MaxSummaryActivities
    /\ \E q \in SummaryRequests(today) : InsertActivity(1, q.user_id, q.payload)

SummaryGetDailySummary ==
    /\ inflight[1] = Idle
    /\ \E d \in {Strftime(today), Strftime(today - 1)}, u \in UserIds :
          get_daily_summary(d, u)
    /\ UNCHANGED inflight

NextSummary ==
    \/ SummaryCreateActivity
    \/ CreatedQuery(1)
    \/ SummaryGetDailySummary

SpecSummary == Init /\ [][NextSummary]_vars

(***************************************************************************)
(* The trends over histories spread around the two windows, with records   *)
(* of a category written in capitals.                                      *)
(***************************************************************************)
InitTrends ==
    /\ activities = {}
    /\ next_id = 1
    /\ today \in TodayChoices
    /\ response = [ kind |-> "none" ]
    /\ users = RegisteredUsers
    /\ next_user_id = 3
    /\ db_up = TRUE
    /\ strict_dates = TRUE
    /\ photo_url_column \in BOOLEAN
    /\ inflight = [ c \in Clients |-> Idle ]

TrendCreateActivity ==
    /\ inflight[1] = Idle
    /\ next_id <= MaxTrendActivities
    /\ \E q \in TrendRequests(today) : InsertActivity(1, q.user_id, q.payload)

TrendGetTrends ==
    /\ inflight[1] = Idle
    /\ \E u \in UserIds : BeginTrends(1, u)

NextTrends ==
    \/ TrendCreateActivity
    \/ CreatedQuery(1)
    \/ TrendGetTrends
    \/ TrendsQuery(1)

SpecTrends == InitTrends /\ [][NextTrends]_vars

(***************************************************************************)
(* Third specification: records of one category and one day whose mood     *)
(* rating is absent or takes each value of the scale, one of them written  *)
(* in lower case.                                                          *)
(***************************************************************************)
MoodPayloads(t) ==
    { ActivityCreate(Cat("Sleep"), 30, m, t) : m \in {NULL, 1, 2, 4, 5} }
    \cup { ActivityCreate(Cat("Work/Productivity"), 30, NULL, t),
           ActivityCreate(Cat("sleep"), 30, 1, t) }

MoodCreateActivity ==
    /\ inflight[1] = Idle
    /\ next_id <= MaxMoodActivities
    /\ \E p \in MoodPayloads(today) : InsertActivity(1, 1, p)

MoodGetDailySummary ==
    /\ inflight[1] = Idle
    /\ get_daily_summary(Strftime(today), 1)
    /\ UNCHANGED inflight

NextMood ==
    \/ MoodCreateActivity
    \/ CreatedQuery(1)
    \/ MoodGetDailySummary

SpecMood == Init /\ [][NextMood]_vars

(***************************************************************************)
(* Fourth specification: requests in steps.  Client 1 reads the analytics  *)
(* of user 1 through one server process while client 2 writes records of   *)
(* user 1 through another, and the database server comes and goes.         *)
(***************************************************************************)
InitRequests ==
    /\ activities = {}
    /\ next_id = 1
    /\ today = 738887
    /\ response = [ kind |-> "none" ]
    /\ users = RegisteredUsers
    /\ next_user_id = 3
    /\ db_up = TRUE
    /\ strict_dates = TRUE
    /\ photo_url_column \in BOOLEAN
    /\ inflight = [ c \in Clients |-> Idle ]

AnalyticsRequests(t) ==
    { [ op |-> "get_trends" ],
      [ op |-> "get_daily_summary", summary_date |-> Strftime(t) ] }

WriterPayloads(t) ==
    { ActivityCreate(Cat("Sleep"), 30, NULL, t) }

WriterRequests(t) ==
    { [ op |-> "create_activity", payload |-> p ] : p \in WriterPayloads(t) }
    \cup { [ op |-> "update_activity", activity_id |-> 1,
             payload |-> ActivityCreate(Cat("Sleep"), 15, NULL, t) ],
           [ op |-> "delete_activity", activity_id |-> 1 ],
           [ op |-> "delete_multiple_activities", activity_ids |-> {1, 2} ] }

RequestAuthorize ==
    \E req \in AnalyticsRequests(today) : Authorize(1, create_token(1), req)

RequestBeginTrends ==
    /\ inflight[1].pc = "verified"
    /\ inflight[1].req.op = "get_trends"
    /\ BeginTrends(1, inflight[1].user_id)

RequestGetDailySummary ==
    /\ inflight[1].pc = "verified"
    /\ inflight[1].req.op = "get_daily_summary"
    /\ get_daily_summary(inflight[1].req.summary_date, inflight[1].user_id)
    /\ inflight' = [ inflight EXCEPT ![1] = Idle ]

WriterAuthorize ==
    \E req \in WriterRequests(today) :
        /\ req.op = "create_activity" => next_id <= MaxRequestActivities
        /\ Authorize(2, create_token(1), req)

WriterInsertActivity ==
    /\ inflight[2].pc = "verified"
    /\ inflight[2].req.op = "create_activity"
    /\ next_id <= MaxRequestActivities
    /\ InsertActivity(2, inflight[2].user_id, inflight[2].req.payload)

WriterUpdateSelect ==
    /\ inflight[2].pc = "verified"
    /\ inflight[2].req.op = "update_activity"
    /\ UpdateSelect(2, inflight[2].req.activity_id, inflight[2].user_id,
                    inflight[2].req.payload)

WriterDeleteActivity ==
    /\ inflight[2].pc = "verified"
    /\ inflight[2].req.op = "delete_activity"
    /\ delete_activity(2, inflight[2].req.activity_id, inflight[2].user_id)

WriterDeleteMultipleActivities ==
    /\ inflight[2].pc = "verified"
    /\ inflight[2].req.op = "delete_multiple_activities"
    /\ delete_multiple_activities(2, inflight[2].req.activity_ids, inflight[2].user_id)

NextRequests ==
    \/ RequestAuthorize
    \/ RequestBeginTrends
    \/ TrendsQuery(1)
    \/ RequestGetDailySummary
    \/ WriterAuthorize
    \/ WriterInsertActivity
    \/ CreatedQuery(2)
    \/ WriterUpdateSelect
    \/ UpdateStatement(2)
    \/ UpdatedQuery(2)
    \/ WriterDeleteActivity
    \/ delete_activity_commit(2)
    \/ WriterDeleteMultipleActivities
    \/ delete_multiple_activities_commit(2)
    \/ DbFail
    \/ DbRecover

SpecRequests == InitRequests /\ [][NextRequests]_vars

(***************************************************************************)
(* Fifth specification: accounts.  Client 1 sends protected requests with  *)
(* tokens good and bad: it creates records and asks for summaries.         *)
(* Through another server process client 2 registers a user and deletes    *)
(* accounts.  An account is switched off and on in the users table, and    *)
(* the database server comes and goes.                                     *)
(***************************************************************************)
\* tokens issued so far, a token past its exp, and a token signed with
\* another key
Tokens ==
    { create_token(u) : u \in 1..(next_user_id - 1) }
    \cup { [ create_token(1) EXCEPT !.expired = TRUE ],
           [ create_token(2) EXCEPT !.signed = FALSE ] }

AccountRequests(t) ==
    { [ op |-> "create_activity", payload |-> ActivityCreate(Cat("Sleep"), 30, NULL, t) ],
      [ op |-> "get_daily_summary", summary_date |-> Strftime(t) ] }

AccountRegisterSelect ==
    /\ inflight[2] = Idle
    /\ next_user_id <= MaxUsers
    /\ RegisterSelect(2, Email("cat@example.com"))

AccountAuthorize ==
    \E credentials \in Tokens, req \in AccountRequests(today) :
        /\ req.op = "create_activity" => next_id <= MaxAccountActivities
        /\ Authorize(1, credentials, req)

\* the requests of client 2 are delete_user requests
AccountAuthorizeDeleteUser ==
    \E credentials \in Tokens : Authorize(2, credentials, [ op |-> "delete_user" ])

AccountGetDailySummary ==
    /\ inflight[1].pc = "verified"
    /\ inflight[1].req.op = "get_daily_summary"
    /\ get_daily_summary(inflight[1].req.summary_date, inflight[1].user_id)
    /\ inflight' = [ inflight EXCEPT ![1] = Idle ]

AccountInsertActivity ==
    /\ inflight[1].pc = "verified"
    /\ inflight[1].req.op = "create_activity"
    /\ next_id <= MaxAccountActivities
    /\ InsertActivity(1, inflight[1].user_id, inflight[1].req.payload)

AccountDeleteUserSelect ==
    /\ inflight[2].pc = "verified"
    /\ inflight[2].req.op = "delete_user"
    /\ DeleteUserSelect(2, inflight[2].user_id)

\* UPDATE users SET is_active = ... by the operator of the database, for the
\* account of user 1 or user 2 and in either direction (no route of the
\* service writes the column after the INSERT of register, and verify_token
\* reads it)
SetActive ==
    /\ \E x \in { y \in users : y.id \in UserIds } :
          users' = (users \ {x}) \cup { [ x EXCEPT !.is_active = ~x.is_active ] }
    /\ UNCHANGED <<activities, next_id, today, response, next_user_id, db_up,
                   strict_dates, photo_url_column, inflight>>

NextAccounts ==
    \/ AccountRegisterSelect
    \/ RegisterInsert(2)
    \/ RegisterCommit(2)
    \/ AccountAuthorize
    \/ AccountAuthorizeDeleteUser
    \/ AccountGetDailySummary
    \/ AccountInsertActivity
    \/ CreatedQuery(1)
    \/ AccountDeleteUserSelect
    \/ DeleteUserStatement(2)
    \/ DeleteUserCommit(2)
    \/ SetActive
    \/ DbFail
    \/ DbRecover

SpecAccounts == InitRequests /\ [][NextAccounts]_vars

(***************************************************************************)
(* Sixth specification: the strings given to get_daily_summary as its      *)
(* date, on a database server of either kind.                              *)
(***************************************************************************)
InitDates ==
    /\ activities = {}
    /\ next_id = 1
    /\ today = 738887
    /\ response = [ kind |-> "none" ]
    /\ users = RegisteredUsers
    /\ next_user_id = 3
    /\ db_up = TRUE
    /\ strict_dates \in BOOLEAN
    /\ photo_url_column \in BOOLEAN
    /\ inflight = [ c \in Clients |-> Idle ]

DateStrings(t) ==
    { Strftime(t), Strftime(t - 1), Strftime(t + 1),
      <<2024, 2, 29>>, <<2024, 2, 30>>, <<2023, 2, 29>>, <<2024, 13, 1>>,
      <<2024, 4, 31>>, <<2024, 0, 10>>, <<2024, 1, 0>> }

DatePayloads(t) ==
    { ActivityCreate(Cat("Sleep"), 480, 4, t),
      ActivityCreate(Cat("Work/Productivity"), 60, NULL, t - 1) }

DatesCreateActivity ==
    /\ inflight[1] = Idle
    /\ next_id <= MaxDateActivities
    /\ \E u \in UserIds, p \in DatePayloads(today) : InsertActivity(1, u, p)

DatesGetDailySummary ==
    /\ inflight[1] = Idle
    /\ \E d \in DateStrings(today), u \in UserIds : get_daily_summary(d, u)
    /\ UNCHANGED inflight

NextDates ==
    \/ DatesCreateActivity
    \/ CreatedQuery(1)
    \/ DatesGetDailySummary

SpecDates == InitDates /\ [][NextDates]_vars

(***************************************************************************)
(* Seventh specification: two users and the routes that name a record by   *)
(* its id or by its date.  The create and update requests are those of     *)
(* client 1, the DELETE requests those of client 2, through a server       *)
(* process each; get_activity, of one statement, is served by either       *)
(* process, also between two statements of a running request.  The         *)
(* database server comes and goes.                                         *)
(***************************************************************************)
OwnerPayloads(t) ==
    { ActivityCreate(Cat("Sleep"), 30, NULL, t),
      ActivityCreate(Cat("Work/Productivity"), 60, 3, t - 1),
      ActivityCreate(Cat("Sleep"), 0, NULL, t) }

OwnCreateActivity ==
    /\ inflight[1] = Idle
    /\ next_id <= MaxOwnedActivities
    /\ \E u \in UserIds, p \in OwnerPayloads(today) : InsertActivity(1, u, p)

OwnUpdateActivity ==
    /\ inflight[1] = Idle
    /\ \E id \in 1..MaxOwnedActivities, u \in UserIds, p \in OwnerPayloads(today) :
          UpdateSelect(1, id, u, p)

OwnGetActivity ==
    /\ \E id \in 1..MaxOwnedActivities, u \in UserIds : get_activity(id, u)
    /\ UNCHANGED inflight

OwnDeleteActivity ==
    /\ inflight[2] = Idle
    /\ \E id \in 1..MaxOwnedActivities, u \in UserIds : delete_activity(2, id, u)

OwnDeleteActivitiesByDate ==
    /\ inflight[2] = Idle
    /\ \E d \in {today - 1, today}, u \in UserIds : delete_activities_by_date(2, d, u)

OwnDeleteMultipleActivities ==
    /\ inflight[2] = Idle
    /\ \E activity_ids \in { {}, 1..MaxOwnedActivities }, u \in UserIds :
          delete_multiple_activities(2, activity_ids, u)

NextOwnership ==
    \/ OwnCreateActivity
    \/ CreatedQuery(1)
    \/ OwnUpdateActivity
    \/ UpdateStatement(1)
    \/ UpdatedQuery(1)
    \/ OwnGetActivity
    \/ OwnDeleteActivity
    \/ delete_activity_commit(2)
    \/ OwnDeleteActivitiesByDate
    \/ delete_activities_by_date_commit(2)
    \/ OwnDeleteMultipleActivities
    \/ delete_multiple_activities_commit(2)
    \/ DbFail
    \/ DbRecover

SpecOwnership == Init /\ [][NextOwnership]_vars

(***************************************************************************)
(* Eighth specification: e-mail addresses.  Two clients, each through a    *)
(* server process of its own, register, change the address of their        *)
(* account (client c sends the token of user c) and delete an account      *)
(* (with the token of either user, so that an account is deleted between   *)
(* two statements of a change of its address), while the database server   *)
(* comes and goes.                                                         *)
(***************************************************************************)
RegisterEmails ==
    { Email("cat@example.com"), UpperEmail("cat@example.com"), Email("ann@example.com") }

ProfileEmails ==
    { Email("cat@example.com"), UpperEmail("ann@example.com"), Email("bob@example.com") }

EmailRegisterSelect ==
    /\ next_user_id <= MaxUsers
    /\ \E c \in Clients, email \in RegisterEmails :
          /\ inflight[c] = Idle
          /\ RegisterSelect(c, email)

EmailRegisterInsert == \E c \in Clients : RegisterInsert(c)

EmailRegisterCommit == \E c \in Clients : RegisterCommit(c)

EmailProfileAuthorize ==
    \E c \in Clients, email \in ProfileEmails :
        Authorize(c, create_token(c), [ email |-> email, op |-> "update_user_profile" ])

EmailDeleteUserAuthorize ==
    \E c \in Clients, u \in UserIds :
        Authorize(c, create_token(u), [ op |-> "delete_user" ])

EmailDeleteUserSelect ==
    \E c \in Clients :
        /\ inflight[c].pc = "verified"
        /\ inflight[c].req.op = "delete_user"
        /\ DeleteUserSelect(c, inflight[c].user_id)

EmailDeleteUserStatement == \E c \in Clients : DeleteUserStatement(c)

EmailDeleteUserCommit == \E c \in Clients : DeleteUserCommit(c)

EmailProfileSelect ==
    \E c \in Clients :
        /\ inflight[c].pc = "verified"
        /\ inflight[c].req.op = "update_user_profile"
        /\ ProfileSelect(c, inflight[c].user_id, inflight[c].req.email)

EmailProfileUpdate == \E c \in Clients : ProfileUpdate(c)

EmailProfileQuery == \E c \in Clients : ProfileQuery(c)

NextEmails ==
    \/ EmailRegisterSelect
    \/ EmailRegisterInsert
    \/ EmailRegisterCommit
    \/ EmailProfileAuthorize
    \/ EmailProfileSelect
    \/ EmailProfileUpdate
    \/ EmailProfileQuery
    \/ EmailDeleteUserAuthorize
    \/ EmailDeleteUserSelect
    \/ EmailDeleteUserStatement
    \/ EmailDeleteUserCommit
    \/ DbFail
    \/ DbRecover

SpecEmails == InitRequests /\ [][NextEmails]_vars

(***************************************************************************)
(* Ninth specification: the two analytics handlers of one server process   *)
(* over the records of two users, asked for dates and for strings that are *)
(* no date, on a database server of either kind that comes and goes.       *)
(***************************************************************************)
HistoryRequests(t) ==
    { [ user_id |-> u, payload |-> p ] :
        u \in UserIds,
        p \in { ActivityCreate(Cat("Sleep"), 40, NULL, t),
                ActivityCreate(Cat("Sleep"), 15, 4, t - 1),
                ActivityCreate(Cat("Work/Productivity"), 60, 3, t) } }
    \cup { [ user_id |-> 2, payload |-> ActivityCreate(Cat("sleep"), 5, NULL, t) ] }

AnalyticsCreateActivity ==
    /\ inflight[1] = Idle
    /\ next_id <= MaxAnalyticsActivities
    /\ \E q \in HistoryRequests(today) : InsertActivity(1, q.user_id, q.payload)

AnalyticsGetDailySummary ==
    /\ inflight[1] = Idle
    /\ \E d \in {Strftime(today), Strftime(today - 1), <<2024, 2, 30>>}, u \in UserIds :
          get_daily_summary(d, u)
    /\ UNCHANGED inflight

AnalyticsGetTrends ==
    /\ inflight[1] = Idle
    /\ \E u \in UserIds : BeginTrends(1, u)

NextAnalytics ==
    \/ AnalyticsCreateActivity
    \/ CreatedQuery(1)
    \/ AnalyticsGetDailySummary
    \/ AnalyticsGetTrends
    \/ TrendsQuery(1)
    \/ DbFail
    \/ DbRecover

SpecAnalytics == InitDates /\ [][NextAnalytics]_vars

(***************************************************************************)
(* Tenth specification: records and the deletion of accounts.  Client 1    *)
(* creates, updates and deletes records with the token of any user         *)
(* registered so far, on the tables of init_db or of create_tables;        *)
(* through another server process client 2 registers a user and deletes    *)
(* accounts, also between two statements of a request of client 1, and the *)
(* database server comes and goes.                                         *)
(***************************************************************************)
CascadeRequests(t) ==
    { [ op |-> "create_activity", payload |-> ActivityCreate(Cat("Sleep"), 30, NULL, t) ],
      [ op |-> "update_activity", activity_id |-> 1,
        payload |-> ActivityCreate(Cat("Sleep"), 15, NULL, t) ],
      [ op |-> "delete_activity", activity_id |-> 1 ],
      [ op |-> "delete_multiple_activities", activity_ids |-> {1, 2} ] }

CascadeAuthorize ==
    \E u \in 1..(next_user_id - 1), req \in CascadeRequests(today) :
        /\ req.op = "create_activity" => next_id <= MaxCascadeActivities
        /\ Authorize(1, create_token(u), req)

CascadeInsertActivity ==
    /\ inflight[1].pc = "verified"
    /\ inflight[1].req.op = "create_activity"
    /\ next_id <= MaxCascadeActivities
    /\ InsertActivity(1, inflight[1].user_id, inflight[1].req.payload)

CascadeUpdateSelect ==
    /\ inflight[1].pc = "verified"
    /\ inflight[1].req.op = "update_activity"
    /\ UpdateSelect(1, inflight[1].req.activity_id, inflight[1].user_id,
                    inflight[1].req.payload)

CascadeDeleteActivity ==
    /\ inflight[1].pc = "verified"
    /\ inflight[1].req.op = "delete_activity"
    /\ delete_activity(1, inflight[1].req.activity_id, inflight[1].user_id)

CascadeDeleteMultipleActivities ==
    /\ inflight[1].pc = "verified"
    /\ inflight[1].req.op = "delete_multiple_activities"
    /\ delete_multiple_activities(1, inflight[1].req.activity_ids, inflight[1].user_id)

CascadeRegisterSelect ==
    /\ inflight[2] = Idle
    /\ next_user_id <= MaxUsers
    /\ RegisterSelect(2, Email("cat@example.com"))

CascadeAuthorizeDeleteUser ==
    \E u \in 1..(next_user_id - 1) :
        Authorize(2, create_token(u), [ op |-> "delete_user" ])

CascadeDeleteUserSelect ==
    /\ inflight[2].pc = "verified"
    /\ inflight[2].req.op = "delete_user"
    /\ DeleteUserSelect(2, inflight[2].user_id)

NextCascade ==
    \/ CascadeAuthorize
    \/ CascadeInsertActivity
    \/ CreatedQuery(1)
    \/ CascadeUpdateSelect
    \/ UpdateStatement(1)
    \/ UpdatedQuery(1)
    \/ CascadeDeleteActivity
    \/ delete_activity_commit(1)
    \/ CascadeDeleteMultipleActivities
    \/ delete_multiple_activities_commit(1)
    \/ CascadeRegisterSelect
    \/ RegisterInsert(2)
    \/ RegisterCommit(2)
    \/ CascadeAuthorizeDeleteUser
    \/ CascadeDeleteUserSelect
    \/ DeleteUserStatement(2)
    \/ DeleteUserCommit(2)
    \/ DbFail
    \/ DbRecover

SpecCascade == InitRequests /\ [][NextCascade]_vars

(***************************************************************************)
(* Vocabulary of the properties.                                           *)
(***************************************************************************)
Abs(x) == IF x < 0 THEN 0 - x ELSE x

\* no request is between two of its statements
Quiet == \A c \in Clients : inflight[c] = Idle

\* the last answer is a summary (a list of trends), and no statement of a
\* request has run since it was given
IsSummary == response.kind = "summary" /\ Quiet

IsTrends == response.kind = "trends" /\ Quiet

\* the stored records of user u in category c
RowsOf(u, c) == { r \in activities : r.user_id = u /\ r.category = c }

\* the stored records of user u dated d
RowsOn(u, d) == { r \in activities : r.user_id = u /\ r.activity_date = d }

DatesOf(rows) == { r.activity_date : r \in rows }

Between(rows, from, to) ==
    { r \in rows : r.activity_date >= from /\ r.activity_date <= to }

\* t (tenths) is s/n to the nearest tenth, and 0 over nothing
NearestTenth(t, s, n) ==
    IF n = 0 THEN t = 0 ELSE 2 * Abs(t * n - 10 * s) <= n

\* the run of consecutive days ending at day cur inside the set of days
RECURSIVE RunEndingAt(_, _)
RunEndingAt(days, cur) ==
    IF cur \in days THEN 1 + RunEndingAt(days, cur - 1) ELSE 0

DateStringLess(a, b) ==
    \/ a[1] < b[1]
    \/ a[1] = b[1] /\ a[2] < b[2]
    \/ a[1] = b[1] /\ a[2] = b[2] /\ a[3] < b[3]

RECURSIVE SumPercentages(_)
SumPercentages(categories) ==
    IF DOMAIN categories = {} THEN 0
    ELSE LET c == CHOOSE x \in DOMAIN categories : TRUE
         IN  categories[c].percentage
             + SumPercentages([x \in (DOMAIN categories) \ {c} |-> categories[x]])

ActiveCategories(categories) ==
    { c \in DOMAIN categories : categories[c].duration_minutes > 0 }

ZeroEntry ==
    [ duration_minutes |-> 0, entry_count |-> 0, average_mood |-> NULL, percentage |-> 0 ]

(***************************************************************************)
(* C1                                                                      *)
(***************************************************************************)
\* C1: in a GetTrends response, a category in which the requesting user has
\* no record dated today has streak_days = 0, whatever the earlier history.
C1_StreakZeroWithoutToday ==
    IsTrends =>
        \A i \in 1..Len(response.trends) :
            LET e == response.trends[i]
            IN  (today \notin DatesOf(RowsOf(response.request.user_id, e.category)))
                    => e.streak_days = 0

(***************************************************************************)
(* C2                                                                      *)
(***************************************************************************)
\* C2: in a GetTrends response, streak_days of every category is the length
\* of the run of consecutive days ending today in the set of distinct dates
\* of the user's records of that category, whatever other dates are logged.
C2_StreakIsRunEndingToday ==
    IsTrends =>
        \A i \in 1..Len(response.trends) :
            LET e == response.trends[i]
            IN  e.streak_days =
                    RunEndingAt(DatesOf(RowsOf(response.request.user_id, e.category)),
                                today)

(***************************************************************************)
(* C3                                                                      *)
(***************************************************************************)
\* C3: the categories of a GetDailySummary response contain every registered
\* category; a registered category without a record of the user on that date
\* has the zero entry; without any record of the user on that date the total
\* and the completion percentage are 0.
C3_SummaryEnumeratesRegistry ==
    IsSummary =>
        LET s    == response.summary
            rows == RowsOn(response.request.user_id,
                           Strptime(response.request.summary_date))
        IN  /\ Registered \subseteq DOMAIN s.categories
            /\ \A c \in Registered :
                  (~ \E r \in rows : r.category = c) => s.categories[c] = ZeroEntry
            /\ (rows = {}) => /\ s.total_logged_minutes = 0
                              /\ s.completion_percentage = 0

\* a summary for a user with no record on the date, while the other user has
\* a record on that date and the user has one on another date
C3_Witness ==
    /\ IsSummary
    /\ LET u == response.request.user_id
           d == Strptime(response.request.summary_date)
       IN  /\ RowsOn(u, d) = {}
           /\ \E r \in activities : r.user_id # u /\ r.activity_date = d
           /\ \E r \in activities : r.user_id = u /\ r.activity_date # d
           /\ response.summary.total_logged_minutes = 0

(***************************************************************************)
(* C4                                                                      *)
(***************************************************************************)
\* C4 as claimed: whenever total_logged_minutes > 0 the rounded percentages
\* of a DailySummary sum to 100 within 0.1.
C4_PercentagesSumWithinOneTenth ==
    (IsSummary /\ response.summary.total_logged_minutes > 0) =>
        Abs(SumPercentages(response.summary.categories) - 1000) <= 1

\* C4 (amended): whenever total_logged_minutes > 0 the rounded percentages of
\* a DailySummary sum to 100 within 0.05 times the number of categories with
\* duration_minutes > 0 (hence within 0.1 for at most three such categories).
C4_PercentagesSumWithinHalfTenthEach ==
    (IsSummary /\ response.summary.total_logged_minutes > 0) =>
        2 * Abs(SumPercentages(response.summary.categories) - 1000)
            <= Cardinality(ActiveCategories(response.summary.categories))

\* four categories of 1, 5, 5 and 5 minutes: 6.2 + 31.2 + 31.2 + 31.2 = 99.8
C4_Witness ==
    /\ IsSummary
    /\ response.summary.total_logged_minutes = 16
    /\ Cardinality(ActiveCategories(response.summary.categories)) = 4
    /\ SumPercentages(response.summary.categories) = 998

(***************************************************************************)
(* C5                                                                      *)
(***************************************************************************)
\* C5: every percentage of a DailySummary is the category's minutes over the
\* minutes of all the user's records of that date, times 100, to the nearest
\* tenth; it is 0 when the user has no minutes on that date.
C5_PercentageIsShareOfTotal ==
    IsSummary =>
        LET s    == response.summary
            rows == RowsOn(response.request.user_id,
                           Strptime(response.request.summary_date))
            T    == SumDuration(rows)
        IN  /\ s.total_logged_minutes = T
            /\ \A c \in DOMAIN s.categories :
                  LET m == SumDuration({ r \in rows : r.category = c })
                  IN  /\ s.categories[c].duration_minutes = m
                      /\ IF T = 0 THEN s.categories[c].percentage = 0
                         ELSE 2 * Abs(s.categories[c].percentage * T - 1000 * m) <= T

(***************************************************************************)
(* C6                                                                      *)
(***************************************************************************)
\* C6: completion_percentage of a DailySummary is the number of registered
\* categories in which the user has minutes on that date, over the number of
\* registered categories, times 100, to one decimal.
C6_CompletionCountsRegisteredCategories ==
    IsSummary =>
        LET rows    == RowsOn(response.request.user_id,
                              Strptime(response.request.summary_date))
            covered == { c \in Registered :
                           SumDuration({ r \in rows : r.category = c }) > 0 }
        IN  response.summary.completion_percentage * Len(CATEGORIES)
                = Cardinality(covered) * 1000

(***************************************************************************)
(* C7                                                                      *)
(***************************************************************************)
\* C7: for a category whose records of the user all lie in [today-30, today],
\* monthly_average is the category's minutes over the number of distinct
\* dates with a record, to the nearest tenth, and 0 without a record; the
\* same for weekly_average and [today-7, today].
C7_AverageOverActiveDays ==
    IsTrends =>
        \A i \in 1..Len(response.trends) :
            LET e    == response.trends[i]
                rows == RowsOf(response.request.user_id, e.category)
                S    == SumDuration(rows)
                n    == Cardinality(DatesOf(rows))
            IN  /\ (Between(rows, today - MonthDays, today) = rows)
                      => NearestTenth(e.monthly_average, S, n)
                /\ (Between(rows, today - WeekDays, today) = rows)
                      => NearestTenth(e.weekly_average, S, n)

(***************************************************************************)
(* C8                                                                      *)
(***************************************************************************)
\* C8: the windows of GetTrends are closed at both ends: the records dated
\* outside [today-30, today] do not change monthly_average, the records dated
\* outside [today-7, today] change neither weekly_average nor data_points,
\* and the records dated today-30 and today-7 are counted.
C8_WindowsClosedAtBothEnds ==
    IsTrends =>
        \A i \in 1..Len(response.trends) :
            LET e     == response.trends[i]
                u     == response.request.user_id
                month == Between(activities, today - MonthDays, today)
                week  == Between(activities, today - WeekDays, today)
            IN  /\ e.monthly_average
                      = WindowAverage(month, u, e.category, today - MonthDays)
                /\ e.weekly_average
                      = WindowAverage(week, u, e.category, today - WeekDays)
                /\ e.data_points = DataPoints(week, u, e.category, today - WeekDays)
                /\ ((today - WeekDays) \in DatesOf(RowsOf(u, e.category)))
                      => \E j \in 1..Len(e.data_points) :
                            e.data_points[j].date = Strftime(today - WeekDays)
                /\ ((today - MonthDays) \in DatesOf(RowsOf(u, e.category)))
                      => e.monthly_average > 0

(***************************************************************************)
(* C9                                                                      *)
(***************************************************************************)
\* C9: for every date d of [today-7, today], data_points has an entry for d
\* exactly when the user has a record of the category on d, and its minutes
\* are the sum of those records; the entries are strictly ascending by date
\* and none has 0 minutes.
C9_DataPointsPerActiveDay ==
    IsTrends =>
        \A i \in 1..Len(response.trends) :
            LET e    == response.trends[i]
                rows == RowsOf(response.request.user_id, e.category)
                dp   == e.data_points
            IN  /\ \A d \in (today - WeekDays)..today :
                      LET on == { r \in rows : r.activity_date = d }
                          at == { j \in 1..Len(dp) : dp[j].date = Strftime(d) }
                      IN  /\ (at # {}) <=> (on # {})
                          /\ \A j \in at : dp[j].minutes = SumDuration(on)
                /\ \A j \in 1..Len(dp) : dp[j].minutes # 0
                /\ \A j \in 1..(Len(dp) - 1) : DateStringLess(dp[j].date, dp[j + 1].date)

(***************************************************************************)
(* C10                                                                     *)
(***************************************************************************)
\* C10: a GetTrends response has exactly one entry per registered category,
\* in the order of the registry, and the entry of a category in which the
\* user has no record has zero averages, zero streak and no data point.
C10_OneEntryPerRegisteredCategory ==
    IsTrends =>
        /\ Len(response.trends) = Len(CATEGORIES)
        /\ \A i \in 1..Len(response.trends) :
              LET e == response.trends[i]
              IN  /\ e.category = CATEGORIES[i]
                  /\ (RowsOf(response.request.user_id, e.category) = {})
                        => /\ e.weekly_average = 0
                           /\ e.monthly_average = 0
                           /\ e.streak_days = 0
                           /\ e.data_points = << >>

(***************************************************************************)
(* C11                                                                     *)
(***************************************************************************)
\* C11: in a DailySummary the average_mood of a category is the mean of
\* mood_rating over its records that carry a rating, to one decimal, and is
\* null when none of its records carries one; a record without a rating is
\* neither counted as 0 nor counted in the denominator.
C11_AverageMoodOverRatedRecords ==
    IsSummary =>
        LET s    == response.summary
            rows == RowsOn(response.request.user_id,
                           Strptime(response.request.summary_date))
        IN  \A c \in DOMAIN s.categories :
               LET rated == { r \in rows : r.category = c /\ r.mood_rating # NULL }
                   am    == s.categories[c].average_mood
               IN  IF rated = {} THEN am = NULL
                   ELSE /\ am # NULL
                        /\ NearestTenth(am, SumMood(rated), Cardinality(rated))

(***************************************************************************)
(* C12                                                                     *)
(***************************************************************************)
IsSummaryRequest ==
    /\ "request" \in DOMAIN response
    /\ "summary_date" \in DOMAIN response.request
    /\ Quiet

\* C12: get_daily_summary called with a string that is no calendar date ends
\* in an error of its own, different from the error of a failed database and
\* without a summary; called with a date it returns a summary, a zero
\* summary when there is no record.
C12_InvalidDateIsItsOwnError ==
    (IsSummaryRequest /\ db_up) =>
        IF ValidDateString(response.request.summary_date)
        THEN /\ IsSummary
             /\ RowsOn(response.request.user_id,
                       Strptime(response.request.summary_date)) = {}
                   => /\ response.summary.total_logged_minutes = 0
                      /\ response.summary.completion_percentage = 0
        ELSE /\ response.kind = "error"
             /\ response # DependencyFailure(response.request)

(***************************************************************************)
(* C13                                                                     *)
(***************************************************************************)
IsDependencyFailure(r) ==
    /\ r.kind = "error"
    /\ r.status = 500
    /\ "summary" \notin DOMAIN r
    /\ "trends" \notin DOMAIN r

InAnalytics(st) ==
    \/ st.pc = "trends"
    \/ st.pc = "verified" /\ st.req.op \in {"get_daily_summary", "get_trends"}

\* C13: a step that get_daily_summary or get_trends takes while the database
\* does not answer ends the request with an error: the response is neither a
\* summary nor a list of trends, and the request is over (nothing is asked
\* of the database again on its behalf).
C13_FailureEndsTheRequest ==
    [][ \A c \in Clients :
           (~db_up /\ InAnalytics(inflight[c]) /\ inflight'[c] # inflight[c])
               => IsDependencyFailure(response') /\ inflight'[c] = Idle ]_vars

\* a get_trends of user 1 has ended in the failure while records are stored
\* and the database is down
C13_Witness ==
    /\ ~db_up
    /\ activities # {}
    /\ inflight[1] = Idle
    /\ response = DependencyFailure([ user_id |-> 1 ])

(***************************************************************************)
(* C14                                                                     *)
(***************************************************************************)
IsAnalytics(r) == "request" \in DOMAIN r

\* a statement of get_trends, or the answer of an analytics request
AnalyticsStep ==
    \/ \E c \in Clients : inflight[c].pc = "trends" \/ inflight'[c].pc = "trends"
    \/ IsAnalytics(response') /\ response' # response

RECURSIVE SumMinutes(_)
SumMinutes(points) ==
    IF points = << >> THEN 0 ELSE Head(points).minutes + SumMinutes(Tail(points))

\* C15: a list of trends is the result of one state of the store, also when
\* records of the user are created while get_trends runs: in every entry
\* weekly_average is the mean, to one decimal, of the minutes of the entry's
\* data_points, and an entry whose monthly_average is 0 has no data_points.
C15_TrendsFromOneSnapshot ==
    response.kind = "trends" =>
        \A i \in 1..Len(response.trends) :
           LET e == response.trends[i]
           IN  /\ NearestTenth(e.weekly_average, SumMinutes(e.data_points),
                               Len(e.data_points))
               /\ e.monthly_average = 0 => e.data_points = << >>

(***************************************************************************)
(* C16                                                                     *)
(***************************************************************************)
\* C16: after any sequence of create_activity and update_activity requests
\* the category of every stored activity is a registered category.
C16_StoredCategoriesRegistered ==
    \A r \in activities : r.category \in Registered

(***************************************************************************)
(* C17                                                                     *)
(***************************************************************************)
OwnRows(u) == { r \in activities : r.user_id = u }

\* C17: the analytics of user u are those of the store that holds the
\* records of u alone: the records of the other users have no part in a
\* DailySummary or in a list of trends of u.
C17_AnalyticsOfOwnRecords ==
    /\ IsSummary =>
          response.summary = DailySummary(OwnRows(response.request.user_id),
                                          response.request.user_id,
                                          response.request.summary_date)
    /\ IsTrends =>
          response.trends = Trends(OwnRows(response.request.user_id),
                                   response.request.user_id, today)

\* trends of a user answered while another user holds records of the same
\* category and day
C17_Witness ==
    /\ IsTrends
    /\ \E r1, r2 \in activities :
          /\ r1.user_id = response.request.user_id
          /\ r2.user_id # r1.user_id
          /\ r2.category = r1.category
          /\ r2.activity_date = r1.activity_date
          /\ r1.activity_date = today

(***************************************************************************)
(* C18                                                                     *)
(***************************************************************************)
OwnedByAnother(activity_id, u) ==
    \E r \in activities : r.id = activity_id /\ r.user_id # u

\* the answer to a request for the record activity_id that u does not own:
\* 404, or 500 when the database does not answer, and the store as it was
RefusedTo(activity_id, u) ==
    /\ response' = IF db_up THEN NotFound(activity_id, u) ELSE Rejected(500)
    /\ activities' = activities

\* C18: get_activity, a well-formed update_activity and delete_activity by
\* user u on the id of a record of another user answer 404 (500 while the
\* database does not answer) and leave the store as it is: update_activity
\* and delete_activity end at their first statement, and the UPDATE of a
\* running update_activity changes no record of another user;
\* delete_activities_by_date by u removes the records of u of that date and
\* no other record.
C18_OnlyTheOwnerReachesARecord ==
    [][ /\ \A activity_id \in 1..MaxOwnedActivities, u \in UserIds :
             OwnedByAnother(activity_id, u) =>
                /\ get_activity(activity_id, u) => RefusedTo(activity_id, u)
                /\ \A c \in Clients :
                      delete_activity(c, activity_id, u)
                         => RefusedTo(activity_id, u) /\ inflight'[c] = Idle
                /\ \A c \in Clients, p \in OwnerPayloads(today) :
                      (ValidActivityCreate(p) /\ UpdateSelect(c, activity_id, u, p))
                         => RefusedTo(activity_id, u) /\ inflight'[c] = Idle
        /\ \A c \in Clients :
             (inflight[c].pc = "update" /\ inflight'[c] # inflight[c])
                => \A r \in activities :
                      r.user_id # inflight[c].user_id => r \in activities'
        /\ \A c \in Clients, d \in {today - 1, today}, u \in UserIds :
             delete_activities_by_date(c, d, u)
                => activities' = IF db_up
                                 THEN { r \in activities :
                                          ~(r.user_id = u /\ r.activity_date = d) }
                                 ELSE activities ]_vars

\* the last request was answered 404 and named a record that is stored and
\* belongs to another user than the one who asked; no request is running,
\* and both users hold records
C18_Witness ==
    /\ Quiet
    /\ \E activity_id \in 1..MaxOwnedActivities, u \in UserIds :
          /\ response = NotFound(activity_id, u)
          /\ OwnedByAnother(activity_id, u)
    /\ { r.user_id : r \in activities } = UserIds

(***************************************************************************)
(* C19                                                                     *)
(***************************************************************************)
\* C19: the user_id of every stored activity is the id of a stored user,
\* whatever the requests (register, create, update and delete of an
\* activity, delete_user), their interleaving and the failures of the
\* database between their statements; and a step that removes a user (the
\* DELETE of delete_user, whether or not its commit then succeeds) removes
\* that user alone, with all the records of that user and no record of
\* anyone else.
C19_ActivitiesBelongToUsers ==
    /\ [](\A r \in activities : r.user_id \in UserIdsStored)
    /\ [][ \A x \in users :
              x \notin users' =>
                 /\ x.id \notin { y.id : y \in users' }
                 /\ users' = users \ {x}
                 /\ activities' = { r \in activities : r.user_id # x.id } ]_vars

(***************************************************************************)
(* C20                                                                     *)
(***************************************************************************)
ActiveUser(u) == \E x \in users : x.id = u /\ x.is_active

\* C20: once a user is deleted or inactive, a request that arrives with a
\* token of that user is answered 401 by verify_token and goes no further:
\* it never gets to its handler, and the step changes no table.  (A request
\* gets past verify_token only for a stored, active user; a client leaves
\* the idle position only past verify_token or into a registration, which
\* needs no token; and no table of activities changes while every client is
\* idle.)
C20_NoRequestOfADeletedUser ==
    [][ /\ \A c \in Clients :
             (inflight[c] = Idle /\ inflight'[c] # Idle)
                => \/ /\ inflight'[c].pc = "verified"
                      /\ ActiveUser(inflight'[c].user_id)
                   \/ inflight'[c].pc = "register"
        /\ Quiet => activities' = activities
        /\ \A c \in Clients :
             inflight[c] = Idle =>
                \A req \in AccountRequests(today) \cup { [ op |-> "delete_user" ] },
                   credentials \in Tokens :
                   (~ActiveUser(credentials.user_id) /\ Authorize(c, credentials, req))
                      => /\ response'.kind = "error"
                         /\ response'.status = 401
                         /\ inflight' = inflight
                         /\ activities' = activities
                         /\ users' = users ]_vars

\* the well-formed token of user 1 has just been refused: user 1 is deleted,
\* the other users are active, records are stored, the database answers and
\* no request is running
C20_Witness ==
    /\ response = TokenRefusal(create_token(1))
    /\ db_up
    /\ 1 \notin UserIdsStored
    /\ \A x \in users : x.is_active
    /\ activities # {}
    /\ Quiet

(***************************************************************************)
(* C21                                                                     *)
(***************************************************************************)
\* C21: no two stored users have the same e-mail address, whatever the
\* interleaving of the statements of register and update_user_profile.  A
\* step that creates a user creates exactly one, whose address no stored
\* user held, and changes no stored user; a token is issued only by the
\* registration whose INSERT stored the user of the token.  The statements
\* of a registration for an address that is stored create no user, change
\* no stored user and issue no token (so of two registrations for one
\* address at most one creates the user).
C21_EmailsUnique ==
    /\ [](\A x, y \in users : (x.email = y.email \/ x.id = y.id) => x = y)
    /\ [][ /\ Cardinality(users') > Cardinality(users)
              => \E new \in users' \ users :
                    /\ users' = users \cup {new}
                    /\ HoldersOf(new.email) = {}
                    /\ \E c \in Clients :
                          /\ inflight[c].pc = "register"
                          /\ inflight'[c] = [ pc |-> "registered", user_id |-> new.id ]
           /\ (response' # response /\ response'.kind = "registered")
              => \E c \in Clients :
                    /\ inflight[c].pc = "registered"
                    /\ inflight'[c] = Idle
                    /\ response'.token = create_token(inflight[c].user_id)
                    /\ users' = users
           /\ \A c \in Clients, email \in RegisterEmails :
                 (HoldersOf(Lower(email)) # {} /\ RegisterSelect(c, email))
                    => /\ users' = users
                       /\ inflight'[c] = Idle
                       /\ response'.kind # "registered"
           /\ \A c \in Clients :
                 (/\ inflight[c].pc = "register"
                  /\ HoldersOf(Lower(inflight[c].email)) # {}
                  /\ RegisterInsert(c))
                    => /\ users' = users
                       /\ inflight'[c] = Idle
                       /\ response'.kind = "error" ]_vars

\* user 3 is registered with cat@example.com, and a write that had passed
\* its check has just been refused by the UNIQUE index
C21_Witness ==
    /\ response = DuplicateEntry
    /\ \E x \in users : x.id = 3 /\ x.email = "cat@example.com"
    /\ Quiet

(***************************************************************************)
(* C22                                                                     *)
(***************************************************************************)
\* C22: in every DailySummary completion_percentage lies between 0 and 100,
\* and the keys of the categories mapping are exactly the registered
\* categories.
C22_CompletionBoundedOverRegistry ==
    IsSummary =>
        /\ response.summary.completion_percentage >= 0
        /\ response.summary.completion_percentage <= 1000
        /\ DOMAIN response.summary.categories = Registered

====
